---- MODULE Spec2Model ----
(***************************************************************************)
(* Conversion orchestration of docker-ffmpeg-service:                      *)
(* ConversionService.convertFile drives one job through the fluent-ffmpeg  *)
(* binding (primary path), the directly spawned ffmpeg process (fallback   *)
(* path) and a setTimeout timer.  One job is modelled; the engine, the     *)
(* child process and the timer are the environment and deliver their       *)
(* events in any order.                                                    *)
(* UploadService.processUpload (the busboy parser, the piped write stream) *)
(* and FFmpegService.sendFileToClient are modelled around it.              *)
(* Spec follows one conversion and its delivery, UploadSpec one upload,    *)
(* ArgsSpec the argument lists of the two paths, JobsSpec the callbacks of *)
(* concurrent requests on one upload directory, FileSpec deleteFile and    *)
(* cleanupFile, NameSpec the download name, EndpointsSpec the registration *)
(* of the routes at start-up.                                              *)
(***************************************************************************)
EXTENDS Integers, Sequences, FiniteSets, TLC

\* ---- bounds -------------------------------------------------------------
\* terminal events ('end'/'error') the binding's emitter may deliver; the
\* source registers plain .on() listeners and relies on no once-only rule
MaxPrimaryEvents == 2
\* largest exit code the spawned ffmpeg process may report
MaxExitCode == 2

\* "no exit code" in a report that does not come from a process exit
NoCode == -1
\* HTTP status handed to onError by the timeout callback / by the other paths
TimeoutStatus == 504
ErrorStatus == 500
\* status slot of an onSuccess call (onSuccess takes no status)
NoStatus == 0

ExitCodes == 0..MaxExitCode

\* options.fileSizeLimit, scaled down: bytes a file part may have
FileSizeLimit == 2
\* file parts in one request body, and the largest part
MaxParts == 2
MaxPartBytes == FileSizeLimit + 2
\* limits.files of the Busboy constructor (line 107)
FilesLimit == 1
\* HTTP statuses handed to onError by processUpload
TooManyFilesStatus == 400
FileTooLargeStatus == 413
EmptyUploadStatus == 400
\* status of the response res.download begins
OkStatus == 200

\* entries of a parameter profile (outputOptions), and words in an entry's value
MaxOptions == 2
MaxValueWords == 3

\* requests in flight at the same time
NumJobs == 2

\* 'progress' events of one primary command
MaxProgress == 2

\* characters of an uploaded file's name
MaxNameLen == 5

VARIABLES
    pc,                    \* position of convertFile: idle, verifying, started, rejected
    inputFile,             \* the input temp file on disk: present, unreadable, absent
    outputFile,            \* the output temp file on disk: missing, empty, nonempty
    timer,                 \* timeoutId: unset, armed, fired, cleared
    usingAlternateMethod,  \* closure variable of convertFile (line 66)
    primaryFlag,           \* the copy of usingAlternateMethod destructured by convertWithFluentFFmpeg
    primary,               \* the fluent-ffmpeg command: none, running
    primaryEvents,         \* terminal events the command has emitted so far
    procs,                 \* spawned ffmpeg processes, in spawn order: running, errored, closed
    spawnExceptions,       \* times convertWithDirectFFmpeg threw instead of spawning
    reports,               \* the calls of onSuccess / onError, in order
    promise,               \* the promise returned by convertFile: pending, resolved, rejected
    lastEvent,             \* the callback that ran last, with the exit code it was given
    attempts,              \* the conversion attempts made: the path used, the output path given
    downloads,             \* the res.download calls of sendFileToClient: streaming, done, failed
    body,                  \* sizes of the file parts of the request body not yet parsed
    pstate,                \* busboy: header, inFile, skip, finished, error
    partLeft,              \* bytes of the current part still to arrive
    nfiles,                \* file parts busboy has accepted
    hitFilesLimit,         \* busboy has emitted 'filesLimit'
    truncated,             \* the current file stream is truncated (its 'limit' was emitted)
    hitLimit,              \* closure variable of processUpload (line 98)
    bytes,                 \* closure variable of processUpload (line 100)
    ws,                    \* the write stream to savedFile: none, opening, open, finished, errored
    wsBuffered,            \* bytes written to the stream and not yet on disk
    piped,                 \* bytes file.pipe has handed to the stream so far
    wsEnded,               \* end() was called on the stream (the piped file ended)
    wsLinked,              \* the stream's open file is the one at the path savedFile
    savedFile,             \* the path savedFile on disk: exists, size
    uploadReports,         \* the calls of processUpload's onError, in order
    uploadPromise,         \* the promise returned by processUpload
    responses,             \* the responses begun on res, each with its kind and status
    lateResponses,         \* calls of res.json / res.download made after the headers were sent
    requestPromise,        \* the promise returned by processConversionRequest
    observed,              \* the progress records handed to onProgress, in order
    outputOptions,         \* the parameter profile handed to both conversion paths
    args,                  \* the argument list convertWithDirectFFmpeg spawns ffmpeg with
    fluentOptions,         \* the output arguments the fluent-ffmpeg command holds
    built,                 \* which of the two have been built: direct, fluent
    jobs,                  \* concurrent requests: paths, position, timer, engine, response
    processAlive,          \* the node process has not died of an uncaught exception
    actor,                 \* the request whose callback ran last
    disk,                  \* the upload directory: path -> absent, file, locked
    lastDelete,            \* the last deleteFile / cleanupFile call and its outcome
    originalName,          \* the uploaded file's name, as sendFileToClient receives it
    extension,             \* the extension of the endpoint's parameter profile
    downloadName,          \* the name sendFileToClient gives res.download
    types,                 \* the keys of endpoints.types
    availableEndpoints,    \* the list getEndpointsList has returned
    routes,                \* the app.post registrations, in order: path, profile
    registered             \* setupEndpoints has run

\* the state of processUpload
uvars == <<body, pstate, partLeft, nfiles, hitFilesLimit, truncated, hitLimit, bytes,
           ws, wsBuffered, piped, wsEnded, wsLinked, savedFile, uploadReports,
           uploadPromise>>

\* the state of convertFile and sendFileToClient
cvars == <<pc, inputFile, outputFile, timer, usingAlternateMethod, primaryFlag,
           primary, primaryEvents, procs, spawnExceptions, reports, promise, downloads,
           attempts>>

\* the state of processConversionRequest
rvars == <<responses, lateResponses, requestPromise, observed>>

\* the argument lists of the two conversion paths
avars == <<outputOptions, args, fluentOptions, built>>

\* concurrent requests of one process
jvars == <<jobs, processAlive, actor>>

\* the upload directory, by path
fvars == <<disk, lastDelete>>

\* the naming of the download
nvars == <<originalName, extension, downloadName>>

\* the registration of the endpoints
evars == <<types, availableEndpoints, routes, registered>>

\* what the service computes apart from the requests
svars == <<nvars, evars>>

\* state outside the request at hand
xvars == <<avars, jvars, fvars, svars>>

vars == <<cvars, uvars, rvars, xvars, lastEvent>>

Event(n, c) == [name |-> n, code |-> c]

\* ---- reports ------------------------------------------------------------
SuccessReport == [call |-> "onSuccess", error |-> "none", status |-> NoStatus, code |-> NoCode]
ErrorReport(e, s, c) == [call |-> "onError", error |-> e, status |-> s, code |-> c]

\* ---- helpers translated from the source ----------------------------------
Last(rs) == rs[Len(rs)]

\* cleanupFile: unlink when the path exists, nothing otherwise, never throws
cleanupFile(f) == IF f \in {"present", "unreadable"} THEN "absent" ELSE f

\* verifyInputFile without the read test of lines 155-178
verifyInputFile_NoReadTest(f) == f # "absent"

\* verifyInputFile: fs.stat and a read test; resolves only for a readable file
verifyInputFile(f) == f = "present"

\* clearTimeout(timeoutId): cancels a pending timer, no effect on a fired one
clearTimeout(t) == IF t = "armed" THEN "cleared" ELSE t

\* a promise settles once; later resolve/reject calls are ignored
settle(p, how) == IF p = "pending" THEN how ELSE p

\* the 'end' handler's verification without the size check of line 356
primaryOutputVerdict_NoSizeCheck(out) == IF out = "missing" THEN "OutputMissing" ELSE "ok"

\* output verification of the primary 'end' handler (lines 334-378); the
\* catch of lines 369-378 (statSync throws on a file that existsSync saw) is
\* the missing file again
primaryOutputVerdict(out) ==
    IF out = "missing" THEN "OutputMissing"
    ELSE IF out = "empty" THEN "OutputEmpty"
    ELSE "ok"

\* the 'close' handler without the existence check of line 499
directOutputVerdict_Skipped(out) == "ok"

\* output verification of the fallback 'close' handler (line 499): existence only
directOutputVerdict(out) == IF out = "missing" THEN "OutputMissing" ELSE "ok"

\* what the fallback 'close' handler reports for an exit code (lines 494-523)
closeReport(code, out) ==
    IF code = 0
    THEN IF directOutputVerdict(out) = "ok"
         THEN SuccessReport
         ELSE ErrorReport(directOutputVerdict(out), ErrorStatus, NoCode)
    ELSE ErrorReport("EngineFailed", ErrorStatus, code)

\* spawn('ffmpeg', args): one more child process
spawnDirect(ps) == Append(ps, "running")

\* tryAlternateMethod (lines 83-97) as far as the child processes go;
\* spawnThrows: convertWithDirectFFmpeg throws before the process exists
tryAlternateMethod(ps, spawnThrows) == IF spawnThrows THEN ps ELSE spawnDirect(ps)

\* handleError without the cleanupFile call of line 551
handleErrorFile_NoCleanup(f) == f

\* handleError (lines 545-556): cleanupFile(inputFile), then onError(error, status)
handleErrorFile(f) == cleanupFile(f)
handleErrorReports(rs, e, s, c) == Append(rs, ErrorReport(e, s, c))

\* what the primary 'end' handler reports (lines 334-391)
endReport(out) ==
    IF primaryOutputVerdict(out) = "ok"
    THEN SuccessReport
    ELSE ErrorReport(primaryOutputVerdict(out), ErrorStatus, NoCode)

\* the engine is at work: the primary command before its terminal event, or
\* a spawned process that has not exited
EngineAlive ==
    \/ primary = "running" /\ primaryEvents = 0
    \/ \E i \in 1..Len(procs) : procs[i] = "running"

\* the guard with its test negated
primaryGuard_Negated(copy, closure) == ~copy

\* the guard of the primary 'error' / 'end' handlers (lines 300, 319): it
\* reads the destructured copy, not the closure variable of convertFile
primaryGuard(copy, closure) == copy

\* ---- upload and delivery helpers ------------------------------------------
\* request bodies: up to MaxParts file parts of up to MaxPartBytes bytes each
PartSizes == 0..MaxPartBytes
Bodies == UNION {[1..n -> PartSizes] : n \in 0..MaxParts}

NoFile == [exists |-> FALSE, size |-> 0]
UploadReport(e, st) == [error |-> e, status |-> st]

\* FileService.deleteFile on savedFile: unlink when the path exists, never throws
deleteFile(f) == IF f.exists THEN NoFile ELSE f

\* the download callback without the deleteFile call of line 164
deleteOutputFile_Kept(o) == o

\* FileService.deleteFile on the output file (sendFileToClient, line 164)
deleteOutputFile(o) == IF o = "missing" THEN o ELSE "missing"

\* fs.createWriteStream opens the path with flag 'w': the file is created empty
openForWrite(f) == [exists |-> TRUE, size |-> 0]

\* the upload module requires busboy, winston and ./fileService (lines 78-80)
\* and no 'fs': the identifier fs of line 213 is unbound
FsRequired == FALSE

\* fs.statSync(savedFile) at line 213, as the 'finish' handler sees it
statSync(f) ==
    IF ~FsRequired THEN "ReferenceError"
    ELSE IF ~f.exists THEN "ENOENT"
    ELSE IF f.size = 0 THEN "empty"
    ELSE "ok"

\* the busboy 'finish' handler's verdict (lines 199-260)
finishVerdict(hl, f) == IF hl THEN "limit" ELSE statSync(f)

\* the 'finish' handler with a catch block that only logs
finishReports_CatchSilent(rs, verdict) ==
    IF verdict = "empty"
    THEN Append(rs, UploadReport("EmptyUpload", EmptyUploadStatus))
    ELSE rs

\* what the 'finish' handler passes to onError, if anything (lines 221-246)
finishReports(rs, verdict) ==
    IF verdict = "limit" \/ verdict = "ok" THEN rs
    ELSE IF verdict = "empty"
         THEN Append(rs, UploadReport("EmptyUpload", EmptyUploadStatus))
         ELSE Append(rs, UploadReport("VerificationError", ErrorStatus))

\* ---- the response (ffmpegService.js) ---------------------------------------
Response(kind, st) == [kind |-> kind, status |-> st]

\* res.headersSent; a response counts as begun from the call that begins it
headersSent(rs) == rs # <<>>

\* res.status(..).json(..) / res.download(..): begins the response unless one
\* was begun before
respond(rs, r) == IF headersSent(rs) THEN rs ELSE Append(rs, r)

\* the same call counted when it comes after the headers were sent (express
\* throws from res.json, and fails the download through its callback)
lateCall(rs, n) == IF headersSent(rs) THEN n + 1 ELSE n

\* the .catch of processConversionRequest (lines 87-104), which runs once the
\* chain has rejected
processCatch(rs) == IF headersSent(rs) THEN rs ELSE Append(rs, Response("processError", ErrorStatus))

\* a .then that runs on rejection as well
thenRuns_OnAnySettle(before, after) == before = "pending" /\ after # "pending"

\* the .then of processConversionRequest (line 49) runs when the promise of
\* processUpload becomes fulfilled
thenRuns(before, after) == before = "pending" /\ after = "resolved"

\* sendFileToClient (lines 147-179): res.download is started; with the headers
\* already sent express refuses the transfer
sendFileToClient(ds, rs) == Append(ds, IF headersSent(rs) THEN "refused" ELSE "streaming")

\* the 'data' handler with an assignment in place of +=
countData_Assign(count, len) == len

\* bytes += data.length (line 154)
countData(count, len) == count + len

\* a parser without limits.fileSize
withinFileSize_Unlimited(received) == TRUE

\* limits.fileSize (line 108): busboy passes the next byte of the file on
\* while the bytes received stay within the limit
withinFileSize(received) == received + 1 <= FileSizeLimit

\* the stream still takes the piped data
Piped == ws \in {"opening", "open"}

\* processUpload has not been called
UploadIdle ==
    /\ body = <<>>
    /\ pstate = "idle"
    /\ partLeft = 0
    /\ nfiles = 0
    /\ hitFilesLimit = FALSE
    /\ truncated = FALSE
    /\ hitLimit = FALSE
    /\ bytes = 0
    /\ ws = "none"
    /\ wsBuffered = 0
    /\ piped = 0
    /\ wsEnded = FALSE
    /\ wsLinked = FALSE
    /\ savedFile = NoFile
    /\ uploadReports = <<>>
    /\ uploadPromise = "pending"

\* ---- argument lists (conversionService.js lines 285, 442-453) ----------------
\* a string is a sequence of atoms: a flag, a word, or one space
Space == " "
Flags == {"-a", "-b"}
Words == {"v", "w"}
InputPath == "in"
OutputPath == "out"

RECURSIVE Spaced(_)
Spaced(words) == IF words = <<>> THEN <<>> ELSE <<Space, Head(words)>> \o Spaced(Tail(words))

\* profile entries as the endpoint profiles write them: a flag, then its
\* value, which may hold spaces ('-an', '-crf 28', '-metadata title="a b c"')
Entries ==
    {<<f>> \o Spaced(words) :
        f \in Flags, words \in UNION {[1..k -> Words] : k \in 0..MaxValueWords}}
Profiles == UNION {[1..n -> Entries] : n \in 0..MaxOptions}

\* String.prototype.split(' ')
RECURSIVE split(_)
split(str) ==
    IF str = <<>> THEN << <<>> >>
    ELSE LET rest == split(Tail(str))
         IN  IF Head(str) = Space
             THEN << <<>> >> \o rest
             ELSE << <<Head(str)>> \o Head(rest) >> \o Tail(rest)

\* String.prototype.trim()
RECURSIVE trim(_)
trim(str) ==
    IF str = <<>> THEN str
    ELSE IF Head(str) = Space THEN trim(Tail(str))
    ELSE IF str[Len(str)] = Space THEN trim(SubSeq(str, 1, Len(str) - 1))
    ELSE str

\* parts.forEach(part => { if (part.trim()) args.push(part.trim()) })  (448-452)
RECURSIVE pushParts(_, _)
pushParts(a, parts) ==
    IF parts = <<>> THEN a
    ELSE pushParts(IF trim(Head(parts)) # <<>> THEN Append(a, trim(Head(parts))) ELSE a,
                   Tail(parts))

\* outputOptions.forEach(option => ...)  (446-453)
RECURSIVE forEachOption(_, _)
forEachOption(a, opts) ==
    IF opts = <<>> THEN a
    ELSE forEachOption(pushParts(a, split(Head(opts))), Tail(opts))

\* the args of convertWithDirectFFmpeg (lines 442-456)
directArgs(opts) ==
    Append(forEachOption(<< <<"-i">>, <<InputPath>> >>, opts), <<OutputPath>>)

\* command.outputOptions(array) of fluent-ffmpeg (line 285): an entry made of
\* two space-separated parts is split into them, any other entry is kept whole
RECURSIVE addOutputOptions(_, _)
addOutputOptions(acc, opts) ==
    IF opts = <<>> THEN acc
    ELSE addOutputOptions(IF Len(split(Head(opts))) = 2
                          THEN acc \o split(Head(opts))
                          ELSE Append(acc, Head(opts)),
                          Tail(opts))

\* no argument list built
ArgsIdle ==
    /\ outputOptions = <<>>
    /\ args = <<>>
    /\ fluentOptions = <<>>
    /\ built = {}

\* ---- the upload directory by path (part_008, conversionService.js) ----------
\* slugs unique-filename hands out, target extensions, and the paths made of
\* them: savedFile is <<slug>>, savedFile + '.' + extension is <<slug, ext>>
Slugs == 1..NumJobs
Exts == {"mp3", "mp4"}
Jobs == 1..NumJobs
Paths == {<<sl>> : sl \in Slugs} \cup {<<sl, e>> : sl \in Slugs, e \in Exts}
EmptyDisk == [path \in Paths |-> "absent"]

\* FileService.generateUniqueFilename(uploadDir) (endpoints.js line 101)
savedPath(slug) == <<slug>>

\* `${savedPath}.${ffmpegParams.extension}` (ffmpegService.js line 52)
outputPath(saved, ext) == saved \o <<ext>>

\* fs.existsSync(path)
existsSync(d, path) == d[path] # "absent"

\* fs.unlinkSync(path): removes a file, throws when there is none or when the
\* directory does not permit it
unlinkSync(d, path) ==
    IF d[path] = "file"
    THEN [disk |-> [d EXCEPT ![path] = "absent"], threw |-> FALSE]
    ELSE [disk |-> d, threw |-> TRUE]

\* deleteFile without its try / catch
deleteFileAt_NoCatch(d, path) ==
    IF existsSync(d, path)
    THEN [disk |-> unlinkSync(d, path).disk, returned |-> ~unlinkSync(d, path).threw,
          threw |-> unlinkSync(d, path).threw, log |-> "deleted"]
    ELSE [disk |-> d, returned |-> FALSE, threw |-> FALSE, log |-> "none"]

\* FileService.deleteFile(filePath) (part_008 lines 40-59)
deleteFileAt(d, path) ==
    IF existsSync(d, path)
    THEN IF unlinkSync(d, path).threw
         THEN [disk |-> unlinkSync(d, path).disk, returned |-> FALSE,
               threw |-> FALSE, log |-> "delete_error"]
         ELSE [disk |-> unlinkSync(d, path).disk, returned |-> TRUE,
               threw |-> FALSE, log |-> "deleted"]
    ELSE [disk |-> d, returned |-> FALSE, threw |-> FALSE, log |-> "none"]

\* ConversionService.cleanupFile(filePath) (lines 563-580); it returns nothing
cleanupFileAt(d, path) ==
    IF existsSync(d, path)
    THEN IF unlinkSync(d, path).threw
         THEN [disk |-> unlinkSync(d, path).disk, returned |-> FALSE,
               threw |-> FALSE, log |-> "cleanup_error"]
         ELSE [disk |-> unlinkSync(d, path).disk, returned |-> FALSE,
               threw |-> FALSE, log |-> "cleanup"]
    ELSE [disk |-> d, returned |-> FALSE, threw |-> FALSE, log |-> "none"]

NoCall == [fn |-> "none", path |-> <<>>, before |-> "absent", returned |-> FALSE,
           threw |-> FALSE, log |-> "none"]

\* the output path processConversionRequest hands to convertFile
\* (ffmpegService.js lines 51-57), for the request whose upload got the slug 1
OutputFilePath == outputPath(savedPath(1), "mp4")

Attempt(by, path) == [by |-> by, path |-> path]

\* the outputFile option of the convertWithFluentFFmpeg call (line 72)
primaryOutput(out) == out

\* the outputFile option of the convertWithDirectFFmpeg calls (lines 87, 110):
\* the variable the primary call was given
fallbackOutput(out) == out

\* no concurrent requests, an empty upload directory
JobsIdle ==
    /\ jobs = <<>>
    /\ processAlive = TRUE
    /\ actor = 0
DiskIdle ==
    /\ disk = EmptyDisk
    /\ lastDelete = NoCall

\* no download named
NamesIdle ==
    /\ originalName = <<>>
    /\ extension = "none"
    /\ downloadName = <<>>

\* no endpoint listed or registered
EndpointsIdle ==
    /\ types = {}
    /\ availableEndpoints = <<>>
    /\ routes = <<>>
    /\ registered = FALSE

StaticIdle == NamesIdle /\ EndpointsIdle

\* nothing outside the request
SideIdle == ArgsIdle /\ JobsIdle /\ DiskIdle /\ StaticIdle

\* no response yet
NoResponse ==
    /\ responses = <<>>
    /\ lateResponses = 0
    /\ requestPromise = "pending"
    /\ observed = <<>>

\* the onSuccess / onError callbacks processConversionRequest hands to
\* convertFile (lines 61-74), applied to the report the step has made; the
\* reject of line 73 is not reached when res.json throws
ConversionResponse ==
    IF reports' = reports THEN UNCHANGED rvars
    ELSE /\ lateResponses' = lateCall(responses, lateResponses)
         /\ UNCHANGED observed
         /\ IF Last(reports').call = "onSuccess"
            THEN /\ responses' = respond(responses, Response("download", OkStatus))
                 /\ requestPromise' = requestPromise
            ELSE /\ responses' = processCatch(respond(responses,
                                     Response("conversionError", Last(reports').status)))
                 /\ requestPromise' = IF headersSent(responses) THEN requestPromise
                                      ELSE settle(requestPromise, "rejected")

\* the onError callback processConversionRequest hands to processUpload
\* (lines 38-47), applied to the report the step has made
UploadResponse ==
    IF uploadReports' = uploadReports THEN UNCHANGED rvars
    ELSE /\ lateResponses' = lateCall(responses, lateResponses)
         /\ UNCHANGED observed
         /\ responses' = processCatch(respond(responses,
                              Response("uploadError", Last(uploadReports').status)))
         /\ requestPromise' = IF headersSent(responses) THEN requestPromise
                              ELSE settle(requestPromise, "rejected")

Init ==
    /\ pc = "idle"
    /\ inputFile \in {"present", "unreadable", "absent"}
    /\ outputFile = "missing"
    /\ timer = "unset"
    /\ usingAlternateMethod = FALSE
    /\ primaryFlag = FALSE
    /\ primary = "none"
    /\ primaryEvents = 0
    /\ procs = <<>>
    /\ reports = <<>>
    /\ promise = "pending"
    /\ spawnExceptions = 0
    /\ lastEvent = Event("none", NoCode)
    /\ downloads = <<>>
    /\ attempts = <<>>
    /\ UploadIdle
    /\ NoResponse
    /\ SideIdle

\* convertFile is called: the promise is created and fs.stat is issued
ConvertFile ==
    /\ pc = "idle"
    /\ pc' = "verifying"
    /\ UNCHANGED <<inputFile, outputFile, timer, usingAlternateMethod, primaryFlag,
                   primary, primaryEvents, procs, spawnExceptions, reports, promise>>
    /\ lastEvent' = Event("convertFile", NoCode)
    /\ UNCHANGED attempts
    /\ UNCHANGED <<downloads, uvars>>
    /\ ConversionResponse
    /\ UNCHANGED xvars

\* verifyInputFile rejects: the .catch of convertFile (lines 123-126)
VerifyRejected ==
    /\ pc = "verifying"
    /\ ~verifyInputFile(inputFile)
    /\ pc' = "rejected"
    /\ inputFile' = cleanupFile(inputFile)
    /\ reports' = Append(reports, ErrorReport("InputUnavailable", ErrorStatus, NoCode))
    /\ promise' = settle(promise, "rejected")
    /\ UNCHANGED <<outputFile, timer, usingAlternateMethod, primaryFlag,
                   primary, primaryEvents, procs, spawnExceptions>>
    /\ lastEvent' = Event("verifyRejected", NoCode)
    /\ UNCHANGED attempts
    /\ UNCHANGED <<downloads, uvars>>
    /\ ConversionResponse
    /\ UNCHANGED xvars

\* verifyInputFile resolves: the timer is armed and the primary invocation is
\* constructed without an exception (lines 46-98, 252-394)
StartPrimary ==
    /\ pc = "verifying"
    /\ verifyInputFile(inputFile)
    /\ pc' = "started"
    /\ timer' = "armed"
    /\ primaryFlag' = usingAlternateMethod
    /\ primary' = "running"
    /\ UNCHANGED <<inputFile, outputFile, usingAlternateMethod, primaryEvents,
                   procs, spawnExceptions, reports, promise>>
    /\ attempts' = Append(attempts, Attempt("primary", primaryOutput(OutputFilePath)))
    /\ lastEvent' = Event("primaryStarted", NoCode)
    /\ UNCHANGED <<downloads, uvars>>
    /\ ConversionResponse
    /\ UNCHANGED xvars

\* verifyInputFile resolves, the timer is armed, constructing the primary
\* invocation throws: the catch block (lines 395-415) calls tryAlternateMethod.
\* spawnThrows: convertWithDirectFFmpeg itself throws; the exception reaches
\* the outer catch (lines 99-121), which does nothing as the flag is set.
StartPrimaryThrows ==
    /\ pc = "verifying"
    /\ verifyInputFile(inputFile)
    /\ pc' = "started"
    /\ timer' = "armed"
    /\ primaryFlag' = usingAlternateMethod
    /\ usingAlternateMethod' = TRUE
    /\ \E spawnThrows \in BOOLEAN :
         /\ procs' = tryAlternateMethod(procs, spawnThrows)
         /\ spawnExceptions' = spawnExceptions + (IF spawnThrows THEN 1 ELSE 0)
    /\ attempts' = attempts \o <<Attempt("primary", primaryOutput(OutputFilePath)),
                                 Attempt("fallback", fallbackOutput(OutputFilePath))>>
    /\ UNCHANGED <<inputFile, outputFile, primary, primaryEvents, reports, promise>>
    /\ lastEvent' = Event("primaryThrew", NoCode)
    /\ UNCHANGED <<downloads, uvars>>
    /\ ConversionResponse
    /\ UNCHANGED xvars

\* the engine writes the output file while it runs
EngineWrites ==
    /\ EngineAlive
    /\ \E o \in {"empty", "nonempty"} :
         /\ o # outputFile
         /\ outputFile' = o
    /\ UNCHANGED <<pc, inputFile, timer, usingAlternateMethod, primaryFlag,
                   primary, primaryEvents, procs, spawnExceptions, reports, promise>>
    /\ lastEvent' = Event("engineWrites", NoCode)
    /\ UNCHANGED attempts
    /\ UNCHANGED <<downloads, uvars>>
    /\ ConversionResponse
    /\ UNCHANGED xvars

\* the timeout callback (lines 59-63)
Timeout ==
    /\ timer = "armed"
    /\ timer' = "fired"
    /\ inputFile' = handleErrorFile(inputFile)
    /\ reports' = handleErrorReports(reports, "TimedOut", TimeoutStatus, NoCode)
    /\ promise' = settle(promise, "rejected")
    /\ UNCHANGED <<pc, outputFile, usingAlternateMethod, primaryFlag,
                   primary, primaryEvents, procs, spawnExceptions>>
    /\ lastEvent' = Event("timeout", NoCode)
    /\ UNCHANGED attempts
    /\ UNCHANGED <<downloads, uvars>>
    /\ ConversionResponse
    /\ UNCHANGED xvars

\* the binding emits 'error' (lines 298-316)
PrimaryError ==
    /\ primary = "running"
    /\ primaryEvents < MaxPrimaryEvents
    /\ primaryEvents' = primaryEvents + 1
    /\ IF primaryGuard(primaryFlag, usingAlternateMethod)
       THEN UNCHANGED <<usingAlternateMethod, procs, spawnExceptions, attempts>>
       ELSE /\ usingAlternateMethod' = TRUE
            /\ attempts' = Append(attempts, Attempt("fallback", fallbackOutput(OutputFilePath)))
            /\ \E spawnThrows \in BOOLEAN :
                 /\ procs' = tryAlternateMethod(procs, spawnThrows)
                 /\ spawnExceptions' = spawnExceptions + (IF spawnThrows THEN 1 ELSE 0)
    /\ UNCHANGED <<pc, inputFile, outputFile, timer, primaryFlag, primary,
                   reports, promise>>
    /\ lastEvent' = Event("primaryError", NoCode)
    /\ UNCHANGED <<downloads, uvars>>
    /\ ConversionResponse
    /\ UNCHANGED xvars

\* the binding emits 'end' (lines 317-392)
PrimaryEnd ==
    /\ primary = "running"
    /\ primaryEvents < MaxPrimaryEvents
    /\ primaryEvents' = primaryEvents + 1
    /\ IF primaryGuard(primaryFlag, usingAlternateMethod)
       THEN UNCHANGED <<timer, inputFile, reports, promise>>
       ELSE /\ timer' = clearTimeout(timer)
            /\ inputFile' = cleanupFile(inputFile)
            /\ reports' = Append(reports, endReport(outputFile))
            /\ promise' = settle(promise,
                   IF endReport(outputFile) = SuccessReport
                   THEN "resolved" ELSE "rejected")
    /\ UNCHANGED <<pc, outputFile, usingAlternateMethod, primaryFlag, primary,
                   procs, spawnExceptions>>
    /\ lastEvent' = Event("primaryEnd", NoCode)
    /\ UNCHANGED attempts
    /\ downloads' = IF ~primaryGuard(primaryFlag, usingAlternateMethod)
                        /\ endReport(outputFile) = SuccessReport
                     THEN sendFileToClient(downloads, responses) ELSE downloads
    /\ UNCHANGED uvars
    /\ ConversionResponse
    /\ UNCHANGED xvars

\* a spawned process emits 'close' with an exit code (lines 485-524)
FallbackClose ==
    \E i \in 1..Len(procs) : \E code \in ExitCodes :
      /\ procs[i] \in {"running", "errored"}
      /\ procs[i] = "errored" => code # 0
      /\ procs' = [procs EXCEPT ![i] = "closed"]
      /\ timer' = clearTimeout(timer)
      /\ inputFile' = cleanupFile(inputFile)
      /\ reports' = Append(reports, closeReport(code, outputFile))
      /\ promise' = settle(promise,
             IF closeReport(code, outputFile) = SuccessReport
             THEN "resolved" ELSE "rejected")
      /\ lastEvent' = Event("close", code)
      /\ UNCHANGED attempts
      /\ UNCHANGED <<pc, outputFile, usingAlternateMethod, primaryFlag, primary,
                     primaryEvents, spawnExceptions>>
      /\ downloads' = IF closeReport(code, outputFile) = SuccessReport
                       THEN sendFileToClient(downloads, responses) ELSE downloads
      /\ UNCHANGED uvars
      /\ ConversionResponse
      /\ UNCHANGED xvars

\* a spawned process emits 'error', e.g. the binary cannot be started
\* (lines 526-534); a 'close' may still follow
FallbackError ==
    \E i \in 1..Len(procs) :
      /\ procs[i] = "running"
      /\ procs' = [procs EXCEPT ![i] = "errored"]
      /\ inputFile' = handleErrorFile(inputFile)
      /\ reports' = handleErrorReports(reports, "SpawnError", ErrorStatus, NoCode)
      /\ promise' = settle(promise, "rejected")
      /\ lastEvent' = Event("spawnError", NoCode)
      /\ UNCHANGED attempts
      /\ UNCHANGED <<pc, outputFile, timer, usingAlternateMethod, primaryFlag,
                     primary, primaryEvents, spawnExceptions>>
      /\ UNCHANGED <<downloads, uvars>>
      /\ ConversionResponse
      /\ UNCHANGED xvars

\* the 'progress' handler without the onProgress call of line 278
forwardProgress_Dropped(obs, progress) == obs

\* the 'progress' handler (lines 267-280): the record is logged and handed to
\* onProgress, which is a function whenever processConversionRequest calls
forwardProgress(obs, progress) == Append(obs, progress)

\* the binding emits 'progress' while the command runs (lines 267-280); the
\* observer of processConversionRequest (ffmpegService.js lines 75-84) logs
\* the record.  The record is its percentage, in steps of 1 / MaxProgress.
PrimaryProgress ==
    /\ primary = "running"
    /\ primaryEvents = 0
    /\ Len(observed) < MaxProgress
    /\ \E percent \in 1..MaxProgress : observed' = forwardProgress(observed, percent)
    /\ lastEvent' = Event("progress", NoCode)
    /\ UNCHANGED <<cvars, uvars, responses, lateResponses, requestPromise, xvars>>

\* ---- delivery -------------------------------------------------------------
\* the callback of res.download (lines 162-178): the output file is deleted,
\* whether the transfer failed or not, and the request's promise is settled;
\* a refused transfer ends with an error
DownloadCallback ==
    \E i \in 1..Len(downloads) : \E err \in BOOLEAN :
      /\ downloads[i] \in {"streaming", "refused"}
      /\ downloads[i] = "refused" => err
      /\ downloads' = [downloads EXCEPT ![i] = IF err THEN "failed" ELSE "done"]
      /\ outputFile' = deleteOutputFile(outputFile)
      /\ requestPromise' = settle(requestPromise, IF err THEN "rejected" ELSE "resolved")
      /\ lastEvent' = Event(IF err THEN "downloadFailed" ELSE "downloadDone", NoCode)
      /\ UNCHANGED attempts
      /\ UNCHANGED <<pc, inputFile, timer, usingAlternateMethod, primaryFlag, primary,
                     primaryEvents, procs, spawnExceptions, reports, promise, uvars,
                     responses, lateResponses, observed, xvars>>

\* ---- processUpload --------------------------------------------------------
\* processUpload is called with a request body; no job, no file yet
UploadInit ==
    /\ pc = "idle"
    /\ inputFile = "absent"
    /\ outputFile = "missing"
    /\ timer = "unset"
    /\ usingAlternateMethod = FALSE
    /\ primaryFlag = FALSE
    /\ primary = "none"
    /\ primaryEvents = 0
    /\ procs = <<>>
    /\ spawnExceptions = 0
    /\ reports = <<>>
    /\ promise = "pending"
    /\ downloads = <<>>
    /\ attempts = <<>>
    /\ lastEvent = Event("none", NoCode)
    /\ body \in Bodies
    /\ pstate = "header"
    /\ partLeft = 0
    /\ nfiles = 0
    /\ hitFilesLimit = FALSE
    /\ truncated = FALSE
    /\ hitLimit = FALSE
    /\ bytes = 0
    /\ ws = "none"
    /\ wsBuffered = 0
    /\ piped = 0
    /\ wsEnded = FALSE
    /\ wsLinked = FALSE
    /\ savedFile = NoFile
    /\ uploadReports = <<>>
    /\ uploadPromise = "pending"
    /\ NoResponse
    /\ SideIdle

\* busboy meets a file part within limits.files: the 'file' handler
\* (lines 125-196) creates the write stream and pipes the file into it
BusboyFile ==
    /\ pstate = "header"
    /\ body # <<>>
    /\ nfiles < FilesLimit
    /\ nfiles' = nfiles + 1
    /\ pstate' = "inFile"
    /\ partLeft' = Head(body)
    /\ body' = Tail(body)
    /\ truncated' = FALSE
    /\ ws' = "opening"
    /\ wsBuffered' = 0
    /\ wsEnded' = FALSE
    /\ lastEvent' = Event("file", NoCode)
    /\ UNCHANGED <<cvars, hitFilesLimit, hitLimit, bytes, wsLinked, savedFile,
                   uploadReports, uploadPromise,
                   piped>>
    /\ UploadResponse
    /\ UNCHANGED xvars

\* busboy meets a file part beyond limits.files: it emits 'filesLimit' once
\* (handler of lines 112-123) and skips the part
BusboyFilesLimit ==
    /\ pstate = "header"
    /\ body # <<>>
    /\ nfiles >= FilesLimit
    /\ pstate' = "skip"
    /\ partLeft' = Head(body)
    /\ body' = Tail(body)
    /\ hitFilesLimit' = TRUE
    /\ IF hitFilesLimit
       THEN UNCHANGED <<uploadReports, uploadPromise>>
       ELSE /\ uploadReports' = Append(uploadReports,
                                       UploadReport("TooManyFiles", TooManyFilesStatus))
            /\ uploadPromise' = settle(uploadPromise, "rejected")
    /\ lastEvent' = Event("filesLimit", NoCode)
    /\ UNCHANGED <<cvars, nfiles, truncated, hitLimit, bytes, ws, wsBuffered, wsEnded,
                   wsLinked, savedFile,
                   piped>>
    /\ UploadResponse
    /\ UNCHANGED xvars

\* a byte of the accepted file arrives within fileSize: busboy pushes it, the
\* 'data' handler counts it (line 154) and the pipe writes it to the stream
FileData ==
    /\ pstate = "inFile"
    /\ partLeft > 0
    /\ ~truncated
    /\ withinFileSize(bytes)
    /\ partLeft' = partLeft - 1
    /\ bytes' = countData(bytes, 1)
    /\ wsBuffered' = IF Piped THEN wsBuffered + 1 ELSE wsBuffered
    /\ piped' = IF Piped THEN piped + 1 ELSE piped
    /\ lastEvent' = Event("data", NoCode)
    /\ UNCHANGED <<cvars, body, pstate, nfiles, hitFilesLimit, truncated, hitLimit, ws,
                   wsEnded, wsLinked, savedFile, uploadReports, uploadPromise>>
    /\ UploadResponse
    /\ UNCHANGED xvars

\* the byte that exceeds fileSize arrives: busboy truncates the file and emits
\* 'limit' on it (handler of lines 128-145)
FileLimit ==
    /\ pstate = "inFile"
    /\ partLeft > 0
    /\ ~truncated
    /\ ~withinFileSize(bytes)
    /\ partLeft' = partLeft - 1
    /\ truncated' = TRUE
    /\ hitLimit' = TRUE
    /\ uploadReports' = Append(uploadReports,
                               UploadReport("FileTooLarge", FileTooLargeStatus))
    /\ uploadPromise' = settle(uploadPromise, "rejected")
    /\ lastEvent' = Event("limit", NoCode)
    /\ UNCHANGED <<cvars, body, pstate, nfiles, hitFilesLimit, bytes, ws, wsBuffered,
                   wsEnded, wsLinked, savedFile,
                   piped>>
    /\ UploadResponse
    /\ UNCHANGED xvars

\* busboy discards a byte: of a truncated file or of a skipped part
DiscardData ==
    /\ \/ pstate = "inFile" /\ truncated
       \/ pstate = "skip"
    /\ partLeft > 0
    /\ partLeft' = partLeft - 1
    /\ lastEvent' = Event("discard", NoCode)
    /\ UNCHANGED <<cvars, body, pstate, nfiles, hitFilesLimit, truncated, hitLimit, bytes,
                   ws, wsBuffered, wsEnded, wsLinked, savedFile, uploadReports,
                   uploadPromise,
                   piped>>
    /\ UploadResponse
    /\ UNCHANGED xvars

\* the part is over: an accepted file emits 'end' (lines 157-163) and the pipe
\* ends the write stream
PartEnd ==
    /\ pstate \in {"inFile", "skip"}
    /\ partLeft = 0
    /\ pstate' = "header"
    /\ wsEnded' = IF pstate = "inFile" /\ Piped THEN TRUE ELSE wsEnded
    /\ lastEvent' = Event("partEnd", NoCode)
    /\ UNCHANGED <<cvars, body, partLeft, nfiles, hitFilesLimit, truncated, hitLimit,
                   bytes, ws, wsBuffered, wsLinked, savedFile, uploadReports,
                   uploadPromise,
                   piped>>
    /\ UploadResponse
    /\ UNCHANGED xvars

\* the write stream has opened savedFile
WsOpen ==
    /\ ws = "opening"
    /\ ws' = "open"
    /\ savedFile' = openForWrite(savedFile)
    /\ wsLinked' = TRUE
    /\ lastEvent' = Event("wsOpen", NoCode)
    /\ UNCHANGED <<cvars, body, pstate, partLeft, nfiles, hitFilesLimit, truncated,
                   hitLimit, bytes, wsBuffered, wsEnded, uploadReports, uploadPromise,
                   piped>>
    /\ UploadResponse
    /\ UNCHANGED xvars

\* the write stream writes what it has buffered to its file
WsFlush ==
    /\ ws = "open"
    /\ wsBuffered > 0
    /\ wsBuffered' = 0
    /\ savedFile' = IF wsLinked
                    THEN [savedFile EXCEPT !.size = savedFile.size + wsBuffered]
                    ELSE savedFile
    /\ lastEvent' = Event("wsFlush", NoCode)
    /\ UNCHANGED <<cvars, body, pstate, partLeft, nfiles, hitFilesLimit, truncated,
                   hitLimit, bytes, ws, wsEnded, wsLinked, uploadReports, uploadPromise,
                   piped>>
    /\ UploadResponse
    /\ UNCHANGED xvars

\* the write stream emits 'finish' (lines 174-180): ended and all written
WsFinish ==
    /\ ws = "open"
    /\ wsEnded
    /\ wsBuffered = 0
    /\ ws' = "finished"
    /\ lastEvent' = Event("wsFinish", NoCode)
    /\ UNCHANGED <<cvars, body, pstate, partLeft, nfiles, hitFilesLimit, truncated,
                   hitLimit, bytes, wsBuffered, wsEnded, wsLinked, savedFile,
                   uploadReports, uploadPromise,
                   piped>>
    /\ UploadResponse
    /\ UNCHANGED xvars

\* the write stream emits 'error' (lines 182-195), on open or on a write
WsError ==
    /\ ws \in {"opening", "open"}
    /\ ws' = "errored"
    /\ wsBuffered' = 0
    /\ uploadReports' = Append(uploadReports, UploadReport("WriteError", ErrorStatus))
    /\ uploadPromise' = settle(uploadPromise, "rejected")
    /\ lastEvent' = Event("wsError", NoCode)
    /\ UNCHANGED <<cvars, body, pstate, partLeft, nfiles, hitFilesLimit, truncated,
                   hitLimit, bytes, wsEnded, wsLinked, savedFile,
                   piped>>
    /\ UploadResponse
    /\ UNCHANGED xvars

\* busboy emits 'error' on a malformed body (lines 263-273)
BusboyError ==
    /\ pstate \in {"header", "inFile", "skip"}
    /\ pstate' = "error"
    /\ uploadReports' = Append(uploadReports, UploadReport("MalformedUpload", ErrorStatus))
    /\ uploadPromise' = settle(uploadPromise, "rejected")
    /\ lastEvent' = Event("busboyError", NoCode)
    /\ UNCHANGED <<cvars, body, partLeft, nfiles, hitFilesLimit, truncated, hitLimit,
                   bytes, ws, wsBuffered, wsEnded, wsLinked, savedFile,
                   piped>>
    /\ UploadResponse
    /\ UNCHANGED xvars

\* busboy emits 'finish' (lines 198-261): the body is parsed and every file
\* stream has ended.  On resolution the .then of processConversionRequest
\* (ffmpegService.js lines 49-86) calls convertFile on savedPath.
BusboyFinish ==
    /\ pstate = "header"
    /\ body = <<>>
    /\ pstate' = "finished"
    /\ savedFile' = IF finishVerdict(hitLimit, savedFile) = "limit"
                    THEN deleteFile(savedFile) ELSE savedFile
    /\ wsLinked' = IF finishVerdict(hitLimit, savedFile) = "limit" THEN FALSE ELSE wsLinked
    /\ uploadReports' = finishReports(uploadReports, finishVerdict(hitLimit, savedFile))
    /\ uploadPromise' = IF finishVerdict(hitLimit, savedFile) = "limit" THEN uploadPromise
                        ELSE settle(uploadPromise,
                                    IF finishVerdict(hitLimit, savedFile) = "ok"
                                    THEN "resolved" ELSE "rejected")
    /\ IF thenRuns(uploadPromise, uploadPromise')
       THEN /\ pc' = "verifying"
            /\ inputFile' = "present"
       ELSE UNCHANGED <<pc, inputFile>>
    /\ lastEvent' = Event("finish", NoCode)
    /\ UNCHANGED attempts
    /\ UNCHANGED <<outputFile, timer, usingAlternateMethod, primaryFlag, primary,
                   primaryEvents, procs, spawnExceptions, reports, promise, downloads,
                   body, partLeft, nfiles, hitFilesLimit, truncated, hitLimit, bytes,
                   ws, wsBuffered, wsEnded, piped>>
    /\ UploadResponse
    /\ UNCHANGED xvars

UploadNext ==
    \/ BusboyFile
    \/ BusboyFilesLimit
    \/ FileData
    \/ FileLimit
    \/ DiscardData
    \/ PartEnd
    \/ WsOpen
    \/ WsFlush
    \/ WsFinish
    \/ WsError
    \/ BusboyError
    \/ BusboyFinish

UploadSpec == UploadInit /\ [][UploadNext]_vars

Next ==
    \/ ConvertFile
    \/ VerifyRejected
    \/ StartPrimary
    \/ StartPrimaryThrows
    \/ EngineWrites
    \/ Timeout
    \/ PrimaryProgress
    \/ PrimaryError
    \/ PrimaryEnd
    \/ FallbackClose
    \/ FallbackError
    \/ DownloadCallback

Spec == Init /\ [][Next]_vars

\* an armed timer fires unless it is cancelled
FairSpec == Spec /\ WF_vars(Timeout)

\* ---- the two argument lists of one profile ----------------------------------
\* no request at hand
RequestIdle ==
    /\ pc = "idle"
    /\ inputFile = "absent"
    /\ outputFile = "missing"
    /\ timer = "unset"
    /\ usingAlternateMethod = FALSE
    /\ primaryFlag = FALSE
    /\ primary = "none"
    /\ primaryEvents = 0
    /\ procs = <<>>
    /\ spawnExceptions = 0
    /\ reports = <<>>
    /\ promise = "pending"
    /\ downloads = <<>>
    /\ attempts = <<>>
    /\ lastEvent = Event("none", NoCode)
    /\ UploadIdle
    /\ NoResponse

ArgsInit ==
    /\ RequestIdle
    /\ JobsIdle
    /\ DiskIdle
    /\ StaticIdle
    /\ outputOptions \in Profiles
    /\ args = <<>>
    /\ fluentOptions = <<>>
    /\ built = {}

\* convertWithFluentFFmpeg hands the profile to the command (line 285)
FluentOutputOptions ==
    /\ "fluent" \notin built
    /\ fluentOptions' = addOutputOptions(<<>>, outputOptions)
    /\ built' = built \cup {"fluent"}
    /\ UNCHANGED <<outputOptions, args, cvars, uvars, rvars, jvars, fvars, svars,
                   lastEvent>>

\* convertWithDirectFFmpeg builds its argument list (lines 442-456)
DirectArgs ==
    /\ "direct" \notin built
    /\ args' = directArgs(outputOptions)
    /\ built' = built \cup {"direct"}
    /\ UNCHANGED <<outputOptions, fluentOptions, cvars, uvars, rvars, jvars, fvars,
                   svars, lastEvent>>

ArgsNext ==
    \/ FluentOutputOptions
    \/ DirectArgs

ArgsSpec == ArgsInit /\ [][ArgsNext]_vars

\* ---- concurrent requests of one process ---------------------------------------
\* Each request is followed through its callbacks on the shared upload
\* directory: upload (endpoints.js), conversion with its timer
\* (conversionService.js) and delivery (ffmpegService.js).  A request starts
\* at its arrival or with its upload saved.
Job(slug, e, st) ==
    [saved |-> savedPath(slug), ext |-> e, state |-> st, timer |-> "unset",
     engine |-> "none", response |-> "none"]

JobsInit ==
    /\ RequestIdle
    /\ ArgsIdle
    /\ StaticIdle
    /\ lastDelete = NoCall
    /\ processAlive = TRUE
    /\ actor = 0
    /\ \E alloc \in {f \in [Jobs -> Slugs] : \A j, k \in Jobs : j # k => f[j] # f[k]} :
       \E exts \in [Jobs -> Exts] :
       \E starts \in [Jobs -> {"new", "uploaded"}] :
         /\ jobs = [j \in Jobs |-> Job(alloc[j], exts[j], starts[j])]
         /\ disk = [path \in Paths |->
                      IF \E j \in Jobs : starts[j] = "uploaded" /\ path = savedPath(alloc[j])
                      THEN "file" ELSE "absent"]

\* an uncaught exception ends the process: the timers of all requests are
\* gone and the connections without a response are reset
processExit(js) ==
    [k \in DOMAIN js |->
        [js[k] EXCEPT !.timer = IF @ = "armed" THEN "dead" ELSE @,
                      !.response = IF @ = "none" THEN "reset" ELSE @]]

\* onError of processConversionRequest (ffmpegService.js lines 38-47, 65-74):
\* res.status(..).json(..) begins the response; after the headers were sent
\* it throws, out of a timer / stream / process callback that nothing catches
jobError(js, j, st) ==
    IF js[j].response = "none"
    THEN [js EXCEPT ![j].response = "error", ![j].state = st]
    ELSE processExit(js)
jobErrorSurvived(js, j) == js[j].response = "none"

JobUnchanged == UNCHANGED <<cvars, uvars, rvars, avars, svars, lastDelete, lastEvent>>

\* busboy 'file' (endpoints.js 125-172): the write stream creates savedFile
JobFile(j) ==
    /\ processAlive
    /\ jobs[j].state = "new"
    /\ jobs' = [jobs EXCEPT ![j].state = "uploading"]
    /\ disk' = [disk EXCEPT ![jobs[j].saved] = "file"]
    /\ actor' = j
    /\ UNCHANGED processAlive
    /\ JobUnchanged

\* file 'limit' (endpoints.js 128-145)
JobLimit(j) ==
    /\ processAlive
    /\ jobs[j].state = "uploading"
    /\ jobs' = jobError(jobs, j, "limited")
    /\ processAlive' = jobErrorSurvived(jobs, j)
    /\ actor' = j
    /\ UNCHANGED disk
    /\ JobUnchanged

\* busboy 'finish' (endpoints.js 198-261)
JobFinish(j) ==
    /\ processAlive
    /\ jobs[j].state \in {"uploading", "limited"}
    /\ IF jobs[j].state = "limited"
       THEN /\ disk' = deleteFileAt(disk, jobs[j].saved).disk
            /\ jobs' = [jobs EXCEPT ![j].state = "failed"]
            /\ UNCHANGED processAlive
       ELSE /\ UNCHANGED disk
            /\ IF FsRequired
               THEN /\ jobs' = [jobs EXCEPT ![j].state = "uploaded"]
                    /\ UNCHANGED processAlive
               ELSE /\ jobs' = jobError(jobs, j, "failed")
                    /\ processAlive' = jobErrorSurvived(jobs, j)
    /\ actor' = j
    /\ JobUnchanged

\* convertFile (conversionService.js 31-98): timer armed, engine started
JobConvert(j) ==
    /\ processAlive
    /\ jobs[j].state = "uploaded"
    /\ jobs' = [jobs EXCEPT ![j].state = "running", ![j].timer = "armed",
                            ![j].engine = "running"]
    /\ actor' = j
    /\ UNCHANGED <<disk, processAlive>>
    /\ JobUnchanged

\* the engine writes its output file
JobEngineWrites(j) ==
    /\ processAlive
    /\ jobs[j].engine = "running"
    /\ disk[outputPath(jobs[j].saved, jobs[j].ext)] = "absent"
    /\ disk' = [disk EXCEPT ![outputPath(jobs[j].saved, jobs[j].ext)] = "file"]
    /\ actor' = j
    /\ UNCHANGED <<jobs, processAlive>>
    /\ JobUnchanged

\* the engine's terminal event (conversionService.js 317-392, 485-524): timer
\* cleared, input cleaned up, then onSuccess -> sendFileToClient, or onError
JobEngineEnd(j) ==
    /\ processAlive
    /\ jobs[j].engine = "running"
    /\ disk' = cleanupFileAt(disk, jobs[j].saved).disk
    /\ LET ended == [jobs EXCEPT ![j].engine = "ended",
                                 ![j].timer = clearTimeout(jobs[j].timer)]
       IN  IF existsSync(disk, outputPath(jobs[j].saved, jobs[j].ext))
           THEN /\ jobs' = [ended EXCEPT
                               ![j].state = IF jobs[j].response = "none"
                                            THEN "delivering" ELSE "refused",
                               ![j].response = IF @ = "none" THEN "download" ELSE @]
                /\ UNCHANGED processAlive
           ELSE /\ jobs' = jobError(ended, j, "failed")
                /\ processAlive' = jobErrorSurvived(jobs, j)
    /\ actor' = j
    /\ JobUnchanged

\* the timeout callback (conversionService.js 59-63)
JobTimeout(j) ==
    /\ processAlive
    /\ jobs[j].timer = "armed"
    /\ disk' = cleanupFileAt(disk, jobs[j].saved).disk
    /\ jobs' = jobError([jobs EXCEPT ![j].timer = "fired"], j, "timedout")
    /\ processAlive' = jobErrorSurvived(jobs, j)
    /\ actor' = j
    /\ JobUnchanged

\* the res.download callback (ffmpegService.js 162-178)
JobDelivered(j) ==
    /\ processAlive
    /\ jobs[j].state \in {"delivering", "refused"}
    /\ disk' = deleteFileAt(disk, outputPath(jobs[j].saved, jobs[j].ext)).disk
    /\ jobs' = [jobs EXCEPT ![j].state = "done"]
    /\ actor' = j
    /\ UNCHANGED processAlive
    /\ JobUnchanged

JobsNext ==
    \E j \in Jobs :
        \/ JobFile(j)
        \/ JobLimit(j)
        \/ JobFinish(j)
        \/ JobConvert(j)
        \/ JobEngineWrites(j)
        \/ JobEngineEnd(j)
        \/ JobTimeout(j)
        \/ JobDelivered(j)

JobsSpec == JobsInit /\ [][JobsNext]_vars

\* ---- deleteFile and cleanupFile on the upload directory ------------------------
\* the files of one request
FsPaths == {path \in Paths : path[1] = 1}

FileInit ==
    /\ RequestIdle
    /\ ArgsIdle
    /\ JobsIdle
    /\ DiskIdle
    /\ StaticIdle

FileUnchanged == UNCHANGED <<cvars, uvars, rvars, avars, jvars, svars, lastEvent>>

\* a file appears at a path (a write stream or the engine creates it)
FsCreate ==
    \E path \in FsPaths :
      /\ disk[path] = "absent"
      /\ disk' = [disk EXCEPT ![path] = "file"]
      /\ UNCHANGED lastDelete
      /\ FileUnchanged

\* the directory stops permitting the removal of a file, or permits it again
FsProtect ==
    \E path \in FsPaths :
      /\ disk[path] \in {"file", "locked"}
      /\ disk' = [disk EXCEPT ![path] = IF @ = "file" THEN "locked" ELSE "file"]
      /\ UNCHANGED lastDelete
      /\ FileUnchanged

\* FileService.deleteFile(path) is called (part_008 lines 40-59)
DeleteFile ==
    \E path \in FsPaths :
      /\ disk' = deleteFileAt(disk, path).disk
      /\ lastDelete' = [fn |-> "deleteFile", path |-> path, before |-> disk[path],
                        returned |-> deleteFileAt(disk, path).returned,
                        threw |-> deleteFileAt(disk, path).threw,
                        log |-> deleteFileAt(disk, path).log]
      /\ FileUnchanged

\* ConversionService.cleanupFile(path) is called (lines 563-580)
CleanupFile ==
    \E path \in FsPaths :
      /\ disk' = cleanupFileAt(disk, path).disk
      /\ lastDelete' = [fn |-> "cleanupFile", path |-> path, before |-> disk[path],
                        returned |-> cleanupFileAt(disk, path).returned,
                        threw |-> cleanupFileAt(disk, path).threw,
                        log |-> cleanupFileAt(disk, path).log]
      /\ FileUnchanged

FileNext ==
    \/ FsCreate
    \/ FsProtect
    \/ DeleteFile
    \/ CleanupFile

FileSpec == FileInit /\ [][FileNext]_vars

\* ---- the download name (ffmpegService.js line 154) ----------------------------
\* a file name is a sequence of atoms: '.', '/', or one of two letters
Dot == "."
Slash == "/"
NameAtoms == {Dot, Slash, "a", "b"}
Names == UNION {[1..n -> NameAtoms] : n \in 0..MaxNameLen}

\* the class [^/.] with the dot left in
extensionChar_AnyButSlash(c) == c # Slash

\* the character class [^/.] of the pattern
extensionChar(c) == c \notin {Slash, Dot}

\* /\.[^/.]+$/ matches at position i: a dot, then one or more characters of
\* the class up to the end of the name
matchesAt(name, i) ==
    /\ name[i] = Dot
    /\ i < Len(name)
    /\ \A k \in (i + 1)..Len(name) : extensionChar(name[k])

\* originalName.replace(/\.[^/.]+$/, ''): the leftmost match, which reaches
\* the end of the name, is replaced by nothing
stripExtension(name) ==
    IF \E i \in 1..Len(name) : matchesAt(name, i)
    THEN LET first == CHOOSE i \in 1..Len(name) :
                          /\ matchesAt(name, i)
                          /\ \A k \in 1..(i - 1) : ~matchesAt(name, k)
         IN  SubSeq(name, 1, first - 1)
    ELSE name

\* ... + '.' + extension
buildDownloadName(name, ext) == stripExtension(name) \o <<Dot, ext>>

NameInit ==
    /\ RequestIdle
    /\ ArgsIdle
    /\ JobsIdle
    /\ DiskIdle
    /\ EndpointsIdle
    /\ originalName \in Names
    /\ extension \in Exts
    /\ downloadName = <<>>

\* sendFileToClient builds the download name (line 154)
BuildDownloadName ==
    /\ downloadName = <<>>
    /\ downloadName' = buildDownloadName(originalName, extension)
    /\ UNCHANGED <<originalName, extension, cvars, uvars, rvars, avars, jvars, fvars,
                   evars, lastEvent>>

NameNext == BuildDownloadName

NameSpec == NameInit /\ [][NameNext]_vars

\* ---- endpoint registration (ffmpegService.js 187-232, part_000 62-241) -------
\* A key of endpoints.types is the sequence of its '-'-separated parts, a path
\* the sequence of its '/'-separated segments, each segment written as a key.
TypeKeys ==
    << <<"jpg">>, <<"m4a">>, <<"mp3">>, <<"wav">>, <<"mp4">>, <<"webm">>,
       <<"compress", "mp4">>, <<"compress", "webm">>, <<"hevc">>, <<"av1">> >>
AllKeys == {TypeKeys[i] : i \in 1..Len(TypeKeys)}

\* the extension of a key's parameter profile
profileExtension(prop) ==
    IF prop \in {<<"compress", "mp4">>, <<"hevc">>, <<"av1">>} THEN "mp4"
    ELSE IF prop = <<"compress", "webm">> THEN "webm"
    ELSE prop[1]

\* endpoints.types[prop]
profileOf(prop) == [key |-> prop, extension |-> profileExtension(prop)]

\* for (let prop in endpoints.types): the keys present, in the object's order
RECURSIVE keysInOrder(_, _)
keysInOrder(order, present) ==
    IF order = <<>> THEN <<>>
    ELSE (IF Head(order) \in present THEN <<Head(order)>> ELSE <<>>)
           \o keysInOrder(Tail(order), present)

Segment(word) == <<word>>
CompressPrefix == <<Segment("video"), Segment("compress"), Segment("to")>>
ConvertPrefix(kind) == <<Segment("convert"), Segment(kind), Segment("to")>>

\* the path getEndpointsList gives a key (lines 198-219)
listPath(prop) ==
    IF Len(prop) >= 2 /\ prop[1] = "compress" THEN Append(CompressPrefix, Segment(prop[2]))
    ELSE IF prop \in {<<"hevc">>, <<"av1">>} THEN Append(CompressPrefix, prop)
    ELSE IF prop \in {<<"mp3">>, <<"m4a">>, <<"wav">>} THEN Append(ConvertPrefix("audio"), prop)
    ELSE IF prop \in {<<"mp4">>, <<"webm">>} THEN Append(ConvertPrefix("video"), prop)
    ELSE IF prop = <<"jpg">> THEN Append(ConvertPrefix("image"), prop)
    ELSE <<prop>>

Endpoint(path, method) == [path |-> path, methods |-> {method}]

RECURSIVE postEndpoints(_)
postEndpoints(props) ==
    IF props = <<>> THEN <<>>
    ELSE <<Endpoint(listPath(Head(props)), "POST")>> \o postEndpoints(Tail(props))

\* FFmpegService.getEndpointsList(endpoints) (lines 187-232)
getEndpointsList(present) ==
    postEndpoints(keysInOrder(TypeKeys, present))
      \o <<Endpoint(<<>>, "GET"), Endpoint(<<Segment("endpoints")>>, "GET")>>

NoProp == <<>>

\* the compression branch without the test of lines 216-220
compressProp_FormatOnly(format) == format

\* the key of a /video/compress/to/<format> path (lines 215-220)
compressProp(format) ==
    IF format \in {<<"mp4">>, <<"webm">>} THEN <<"compress">> \o format ELSE format

\* propName as setupEndpoints derives it from a path (lines 213-227)
propNameOf(path) ==
    IF Len(path) >= 4 /\ SubSeq(path, 1, 3) = CompressPrefix THEN compressProp(Last(path))
    ELSE IF Len(path) >= 2 /\ path[1] = Segment("convert") THEN Last(path)
    ELSE IF Len(path) = 1 THEN path[1]
    ELSE NoProp

Route(path, profile) == [path |-> path, profile |-> profile]

\* availableEndpoints.forEach(...) of setupEndpoints (lines 208-233)
RECURSIVE listedRoutes(_, _)
listedRoutes(list, present) ==
    IF list = <<>> THEN <<>>
    ELSE (IF "POST" \in Head(list).methods /\ propNameOf(Head(list).path) \in present
          THEN <<Route(Head(list).path, profileOf(propNameOf(Head(list).path)))>>
          ELSE <<>>)
           \o listedRoutes(Tail(list), present)

\* the short routes '/' + prop (lines 235-240)
RECURSIVE shortRoutes(_)
shortRoutes(props) ==
    IF props = <<>> THEN <<>>
    ELSE <<Route(<<Head(props)>>, profileOf(Head(props)))>> \o shortRoutes(Tail(props))

\* setupEndpoints(availableEndpoints) (lines 206-241)
setupEndpoints(list, present) ==
    listedRoutes(list, present) \o shortRoutes(keysInOrder(TypeKeys, present))

\* the handler express runs for a POST on a path: the first route registered
\* for it
Dispatch(rts, path) ==
    LET hits == {i \in 1..Len(rts) : rts[i].path = path}
    IN  IF hits = {} THEN NoProp
        ELSE rts[CHOOSE i \in hits : \A k \in hits : i <= k].profile

EndpointsInit ==
    /\ RequestIdle
    /\ ArgsIdle
    /\ JobsIdle
    /\ DiskIdle
    /\ NamesIdle
    /\ types \in SUBSET AllKeys
    /\ availableEndpoints = <<>>
    /\ routes = <<>>
    /\ registered = FALSE

EndpointsUnchanged == UNCHANGED <<cvars, uvars, rvars, avars, jvars, fvars, nvars, lastEvent>>

\* const availableEndpoints = getEndpointsList(endpoints) (part_000 line 62)
GetEndpointsList ==
    /\ availableEndpoints = <<>>
    /\ availableEndpoints' = getEndpointsList(types)
    /\ UNCHANGED <<types, routes, registered>>
    /\ EndpointsUnchanged

\* setupEndpoints(availableEndpoints) (part_000 line 65)
SetupEndpoints ==
    /\ availableEndpoints # <<>>
    /\ ~registered
    /\ routes' = setupEndpoints(availableEndpoints, types)
    /\ registered' = TRUE
    /\ UNCHANGED <<types, availableEndpoints>>
    /\ EndpointsUnchanged

EndpointsNext ==
    \/ GetEndpointsList
    \/ SetupEndpoints

EndpointsSpec == EndpointsInit /\ [][EndpointsNext]_vars

\* ---- properties -----------------------------------------------------------
\* the job's state in the terms of the data model, read off the callbacks made
TimedOutFirst == reports # <<>> /\ reports[1].error = "TimedOut"
RunningPrimary == pc = "started" /\ reports = <<>> /\ ~usingAlternateMethod
RunningFallback == pc = "started" /\ reports = <<>> /\ usingAlternateMethod

\* C1: under every interleaving of the primary events, the fallback events
\* and the timeout, the caller receives one outward report in total: every
\* terminal event after the first produces no report.
C1_ExactlyOneReport == Len(reports) <= 1

\* C2: when the timeout fires while the job is still running, TimedOut (504)
\* is reported once and no later 'end', 'error' or 'close' adds a report.
C2_TimeoutReportedOnce ==
    TimedOutFirst =>
        /\ reports[1] = ErrorReport("TimedOut", TimeoutStatus, NoCode)
        /\ Len(reports) = 1

\* C3: once the timeout has fired, the fallback process is never spawned.
C3_NoFallbackAfterTimeout ==
    [][timer = "fired" =>
         /\ Len(procs') = Len(procs)
         /\ spawnExceptions' = spawnExceptions]_vars

\* C4: once the fallback has been chosen, a later 'end' or 'error' of the
\* primary invocation changes nothing: timer, files, processes and reports.
C4_LatePrimaryEventIgnored ==
    [][(usingAlternateMethod /\ lastEvent'.name \in {"primaryEnd", "primaryError"})
         => UNCHANGED <<timer, inputFile, outputFile, procs, spawnExceptions,
                        reports, promise>>]_vars

\* C5: in every state in which the job has reported succeeded or failed the
\* timer is no longer armed.
C5_TimerDisarmedOnceReported == reports # <<>> => timer # "armed"

\* C6: a primary 'error', or an exception while constructing the primary
\* invocation, makes no report, leaves the input file and the armed timer as
\* they are and calls the fallback; EngineFailed / SpawnError reports come
\* from the fallback process only.
C6_PrimaryFailureNotSurfaced ==
    [][/\ (RunningPrimary \/ pc = "verifying") /\
          lastEvent'.name \in {"primaryError", "primaryThrew"}
            => /\ reports' = reports
               /\ promise' = promise
               /\ inputFile' = inputFile
               /\ timer' = "armed"
               /\ usingAlternateMethod'
               /\ \/ Len(procs') = Len(procs) + 1 /\ Last(procs') = "running"
                  \/ spawnExceptions' = spawnExceptions + 1
       /\ (reports' # reports /\ Last(reports').error \in {"EngineFailed", "SpawnError"})
            => lastEvent'.name \in {"close", "spawnError"}]_vars
C6_Witness ==
    /\ lastEvent.name = "primaryError"
    /\ usingAlternateMethod
    /\ Len(procs) = 1
    /\ reports = <<>>
    /\ timer = "armed"
    /\ inputFile = "present"

\* C7: every job that passes input verification eventually reaches one, and
\* only one, of succeeded, failed and timed-out, given that an armed timer
\* fires unless it is cancelled.
C7_ExactlyOneTerminalState ==
    /\ [](pc = "started" => <>(reports # <<>>))
    /\ [](pc = "started" => Len(reports) <= 1)

\* C8: an input file that is missing or unreadable when convertFile is called
\* gives one InputUnavailable report; no path is invoked, no timer is armed.
C8_InputUnavailable ==
    [][(pc = "verifying" /\ inputFile # "present" /\ pc' # "verifying")
         => /\ pc' = "rejected"
            /\ reports' = <<ErrorReport("InputUnavailable", ErrorStatus, NoCode)>>
            /\ promise' = "rejected"
            /\ timer' = "unset"
            /\ primary' = "none"
            /\ procs' = <<>>
            /\ spawnExceptions' = 0
            /\ ~usingAlternateMethod']_vars
C8_Witness ==
    /\ pc = "rejected"
    /\ reports = <<ErrorReport("InputUnavailable", ErrorStatus, NoCode)>>
    /\ timer = "unset"

\* C9: when the primary path, still the path in use, signals 'end': success
\* is reported iff the output exists with non-zero size; a missing or empty
\* output is reported as OutputMissing / OutputEmpty with no fallback; the
\* timer is cancelled in all three cases.
C9_PrimaryEndVerdict ==
    [][(RunningPrimary /\ lastEvent'.name = "primaryEnd")
         => /\ Len(reports') = 1
            /\ reports'[1].call = "onSuccess" <=> outputFile = "nonempty"
            /\ outputFile = "missing" =>
                 reports'[1] = ErrorReport("OutputMissing", ErrorStatus, NoCode)
            /\ outputFile = "empty" =>
                 reports'[1] = ErrorReport("OutputEmpty", ErrorStatus, NoCode)
            /\ promise' = IF outputFile = "nonempty" THEN "resolved" ELSE "rejected"
            /\ timer' = "cleared"
            /\ procs' = procs
            /\ spawnExceptions' = spawnExceptions
            /\ ~usingAlternateMethod']_vars
C9_Witness ==
    /\ lastEvent.name = "primaryEnd"
    /\ Len(reports) = 1
    /\ reports[1].error = "OutputEmpty"
    /\ outputFile = "empty"
    /\ timer = "cleared"

C12_InputPresentWhileRunning ==
    [][/\ (RunningPrimary \/ RunningFallback) => inputFile = "present"
       /\ Len(procs') > Len(procs) => inputFile = "present"]_vars

\* C14: on every failure report the input file and any output file already
\* written (partial or empty included) have been removed from disk.
C14_TempFilesRemovedOnFailure ==
    (reports # <<>> /\ Last(reports).call = "onError")
        => (inputFile = "absent" /\ outputFile = "missing")

\* ---- properties of the upload ----------------------------------------------
UploadErrors == {uploadReports[i].error : i \in 1..Len(uploadReports)}

\* the write stream has nothing more to do
WsSettled == ws \in {"none", "finished", "errored"}

\* the body held one file part within the size limit, not empty, and it
\* was parsed to its end and written without a stream error
InLimitUploadFinished ==
    /\ pstate = "finished"
    /\ nfiles = 1
    /\ ~hitFilesLimit
    /\ ~hitLimit
    /\ bytes > 0
    /\ ws = "finished"

\* C13: an upload under maxBytes whose conversion succeeds yields one
\* delivered file, and after delivery the input and the output temp paths
\* are absent from disk.
C13_InLimitUploadDelivered ==
    /\ InLimitUploadFinished => (uploadReports = <<>> /\ pc # "idle")
    /\ Len(downloads) <= 1
    /\ (downloads # <<>> /\ downloads[1] # "streaming")
         => (inputFile = "absent" /\ outputFile = "missing")

\* C15: when the file part exceeds maxBytes, FileTooLarge is reported, the
\* body is parsed to 'finish', and once the request has quiesced no partial
\* file remains at the destination path.
C15_NoPartialFileAfterLimit ==
    /\ hitLimit => "FileTooLarge" \in UploadErrors
    /\ (hitLimit /\ pstate = "finished" /\ WsSettled) => ~savedFile.exists

\* C16: FileTooLarge is reported only after the body has been drained: the
\* report never precedes the parser's 'finish'.
C16_FileTooLargeAfterDrain ==
    "FileTooLarge" \in UploadErrors => pstate = "finished"

\* C17: when onError is called for TooManyFiles or FileTooLarge the
\* destination path is already absent from disk.
C17_FileDeletedBeforeReport ==
    [][(uploadReports' # uploadReports
          /\ Last(uploadReports').error \in {"TooManyFiles", "FileTooLarge"})
         => ~savedFile'.exists]_vars

\* C18: a body with two file parts reports TooManyFiles; after the request
\* has finished no file remains at the destination path, the upload is not
\* resolved and no conversion is started.
C18_TooManyFilesNothingPersisted ==
    /\ hitFilesLimit => "TooManyFiles" \in UploadErrors
    /\ (hitFilesLimit /\ pstate = "finished" /\ WsSettled)
         => (~savedFile.exists /\ uploadPromise = "rejected" /\ pc = "idle")

\* C19: a body without file parts gets one ingestion failure, which is
\* neither FileTooLarge nor EmptyUpload; no file is created and no
\* conversion is started.
C19_NoFilePart ==
    (pstate = "finished" /\ nfiles = 0)
        => /\ Len(uploadReports) = 1
           /\ uploadReports[1].error \notin {"FileTooLarge", "EmptyUpload"}
           /\ uploadReports[1].status \notin {FileTooLargeStatus, EmptyUploadStatus}
           /\ uploadPromise = "rejected"
           /\ ~savedFile.exists
           /\ ws = "none"
           /\ pc = "idle"
C19_Witness ==
    /\ lastEvent.name = "finish"
    /\ nfiles = 0
    /\ uploadReports = <<UploadReport("VerificationError", ErrorStatus)>>

\* C20: at the normal end of a body with one file part and no limit hit,
\* processUpload resolves iff the destination file exists with non-zero
\* size; a file of size zero is reported as EmptyUpload and not resolved.
C20_ResolvesIffFileNonEmpty ==
    [][(lastEvent'.name = "finish" /\ nfiles = 1 /\ ~hitLimit /\ uploadPromise = "pending")
         => /\ uploadPromise' = "resolved" <=> (savedFile.exists /\ savedFile.size > 0)
            /\ (savedFile.exists /\ savedFile.size = 0) =>
                 /\ Last(uploadReports') = UploadReport("EmptyUpload", EmptyUploadStatus)
                 /\ uploadPromise' = "rejected"
            /\ (savedFile.exists /\ savedFile.size > 0) => uploadReports' = uploadReports]_vars

\* ---- properties of the request ---------------------------------------------
\* C21: convertFile is called only after processUpload has resolved; once
\* hitLimit is set or an ingestion failure is reported, the upload is never
\* resolved and no engine path (timer, primary command, process) is started.
C21_NoConversionAfterIngestionFailure ==
    /\ pc # "idle" => (uploadPromise = "resolved" /\ uploadReports = <<>>)
    /\ (hitLimit \/ uploadReports # <<>>)
         => /\ uploadPromise # "resolved"
            /\ pc = "idle"
            /\ timer = "unset"
            /\ primary = "none"
            /\ procs = <<>>
            /\ reports = <<>>
C21_Witness ==
    /\ pstate = "finished"
    /\ hitLimit
    /\ uploadPromise = "rejected"
    /\ pc = "idle"
    /\ procs = <<>>

\* the upload has no pending effect on the disk: the parser has stopped and
\* the write stream has nothing to open or to write
UploadQuiesced ==
    /\ pstate \in {"finished", "error"}
    /\ ws # "opening"
    /\ wsBuffered = 0

\* C22: whenever ingestion has failed (any onError of processUpload), the
\* file at the destination path has been deleted once the upload has quiesced.
C22_FailedIngestionLeavesNoFile ==
    (uploadReports # <<>> /\ UploadQuiesced) => ~savedFile.exists

\* C23: when the parser's 'finish' settles the upload of an accepted file,
\* the write stream has finished already and the size of the file on disk
\* equals the byte count, whatever the order of the two 'finish' events.
C23_WriteFinishedAtParserFinish ==
    [][(lastEvent'.name = "finish" /\ uploadPromise = "pending" /\ nfiles = 1)
         => /\ ws = "finished"
            /\ savedFile.exists
            /\ savedFile.size = bytes]_vars

\* ---- properties of the delivery ---------------------------------------------
DownloadEnded == lastEvent.name \in {"downloadDone", "downloadFailed"}

RECURSIVE ProfileTokens(_)
ProfileTokens(opts) ==
    IF opts = <<>> THEN <<>>
    ELSE SelectSeq(split(Head(opts)), LAMBDA t : t # <<>>) \o ProfileTokens(Tail(opts))

\* C25: the fallback's argument list is '-i', the input path, the tokens of
\* the profile entries in profile order, the output path; its option part is
\* the same list of arguments as the one the primary command derives from the
\* profile, also for an entry whose value holds spaces.
C25_FallbackArgsMatchPrimary ==
    built = {"direct", "fluent"}
        => /\ args = << <<"-i">>, <<InputPath>> >> \o ProfileTokens(outputOptions)
                        \o << <<OutputPath>> >>
           /\ SubSeq(args, 3, Len(args) - 1) = fluentOptions

\* ---- properties of concurrent requests ----------------------------------------
JobPaths(j) == {jobs[j].saved, outputPath(jobs[j].saved, jobs[j].ext)}

C27_ResponseBegunOnce ==
    /\ Len(responses) <= 1
    /\ lateResponses = 0

\* ---- properties of deleteFile ----------------------------------------------------
\* C28: deleteFile (and cleanupFile) never throws; on an absent path it
\* leaves the directory as it is; a second call on the same path changes
\* nothing more than the first; a failing unlink is logged and swallowed,
\* the file staying in place.
C28_DeleteIdempotent ==
    [][/\ \A path \in FsPaths :
            /\ ~deleteFileAt(disk, path).threw
            /\ ~cleanupFileAt(disk, path).threw
            /\ disk[path] = "absent" =>
                 /\ deleteFileAt(disk, path).disk = disk
                 /\ cleanupFileAt(disk, path).disk = disk
            /\ deleteFileAt(deleteFileAt(disk, path).disk, path).disk
                    = deleteFileAt(disk, path).disk
            /\ cleanupFileAt(cleanupFileAt(disk, path).disk, path).disk
                    = cleanupFileAt(disk, path).disk
       /\ lastDelete' # lastDelete =>
            /\ ~lastDelete'.threw
            /\ lastDelete'.before = "absent" =>
                 (disk' = disk /\ lastDelete'.log = "none")
            /\ lastDelete'.before = "locked" =>
                 /\ disk' = disk
                 /\ lastDelete'.log \in {"delete_error", "cleanup_error"}
                 /\ ~lastDelete'.returned
            /\ lastDelete'.before = "file" =>
                 /\ disk' = [disk EXCEPT ![lastDelete'.path] = "absent"]
                 /\ lastDelete'.log \in {"deleted", "cleanup"}]_vars
C28_Witness ==
    /\ lastDelete.fn = "deleteFile"
    /\ lastDelete.before = "locked"
    /\ lastDelete.log = "delete_error"
    /\ ~lastDelete.threw
    /\ disk[lastDelete.path] = "locked"

\* ---- properties of the byte count ------------------------------------------------
\* C29: the bytes handed to the destination file and the bytes on disk never
\* exceed fileSizeLimit; once the limit is hit no further byte of the part
\* reaches the destination, while the rest of the part is still read and
\* discarded.
C29_WrittenBytesBounded ==
    [][/\ piped' <= FileSizeLimit
       /\ savedFile'.size <= FileSizeLimit
       /\ hitLimit => piped' = piped
       /\ (hitLimit /\ lastEvent'.name = "discard")
            => (partLeft' = partLeft - 1 /\ savedFile'.size <= piped')]_vars
C29_Witness ==
    /\ hitLimit
    /\ lastEvent.name = "discard"
    /\ piped = FileSizeLimit
    /\ savedFile.size = FileSizeLimit
    /\ partLeft = 0

\* C30: bytes never decreases and only the file's 'data' handler changes
\* it; as long as the write stream has not failed the count equals the bytes
\* piped to the destination, so a resolved upload reports the piped size.
C30_CountMatchesPipedBytes ==
    [][/\ bytes' >= bytes
       /\ bytes' # bytes => lastEvent'.name = "data"
       /\ ws' # "errored" => bytes' = piped'
       /\ uploadPromise' = "resolved" => bytes' = piped']_vars
C30_Witness ==
    /\ lastEvent.name = "data"
    /\ bytes = FileSizeLimit
    /\ piped = FileSizeLimit
    /\ ws = "open"

\* the fallback path has been entered so often: processes spawned, and calls
\* of convertWithDirectFFmpeg that threw before spawning
FallbackAttempts == Len(procs) + spawnExceptions

\* the job's state in the terms of the data model, read off the calls made:
\* the outward report made last, else the path in use
JobState ==
    IF reports # <<>>
    THEN IF Last(reports).call = "onSuccess" THEN "succeeded"
         ELSE IF Last(reports).error = "TimedOut" THEN "timed-out"
         ELSE "failed"
    ELSE IF pc \in {"idle", "verifying"} THEN "pending"
    ELSE IF pc = "rejected" THEN "failed"
    ELSE IF usingAlternateMethod THEN "running-fallback"
    ELSE "running-primary"

TerminalStates == {"succeeded", "failed", "timed-out"}

\* C31: the job moves only along pending -> running-primary -> {succeeded,
\* running-fallback, timed-out} and running-fallback -> {succeeded, failed,
\* timed-out} (a job whose input is unavailable fails from pending, C8): the
\* primary path is invoked at most once, the fallback is entered at most once
\* and only out of running-primary, and once a terminal state is reached no
\* step reports again, enters the fallback or changes the state.
C31_JobStateMachine ==
    [][/\ primary = "running" => primary' = "running"
       /\ FallbackAttempts' <= 1
       /\ FallbackAttempts' > FallbackAttempts =>
            /\ JobState \in {"pending", "running-primary"}
            /\ lastEvent'.name \in {"primaryError", "primaryThrew"}
       /\ JobState \in TerminalStates =>
            /\ JobState' = JobState
            /\ reports' = reports
            /\ FallbackAttempts' = FallbackAttempts
            /\ usingAlternateMethod' = usingAlternateMethod
       /\ JobState' # JobState =>
            \/ JobState = "pending" /\ JobState' \in {"running-primary", "running-fallback", "failed"}
            \/ JobState = "running-primary"
                 /\ JobState' \in {"succeeded", "failed", "running-fallback", "timed-out"}
            \/ JobState = "running-fallback"
                 /\ JobState' \in {"succeeded", "failed", "timed-out"}]_vars

\* C32: a 'progress' event of the primary command hands its record to the
\* observer and changes nothing else: the job's position and reports, the
\* path in use, the timer, the input and output files, the processes, the
\* response and the request's promise stay as they are.
C32_ProgressInformational ==
    [][lastEvent'.name = "progress" =>
         /\ Len(observed') = Len(observed) + 1
         /\ SubSeq(observed', 1, Len(observed)) = observed
         /\ Last(observed') \in 1..MaxProgress
         /\ JobState' = JobState
         /\ UNCHANGED <<pc, reports, promise, usingAlternateMethod, primaryFlag,
                        primary, primaryEvents, procs, spawnExceptions, timer,
                        inputFile, outputFile, downloads>>
         /\ UNCHANGED <<responses, lateResponses, requestPromise>>]_vars
C32_Witness ==
    /\ lastEvent.name = "progress"
    /\ Len(observed) = 2
    /\ timer = "armed"
    /\ RunningPrimary
    /\ responses = <<>>

\* the output paths given to the attempts of a path
TargetsOf(by) == {attempts[i].path : i \in {k \in 1..Len(attempts) : attempts[k].by = by}}

\* C33: the output path given to the fallback attempt differs from the one
\* given to the primary attempt, so the fallback process does not write the
\* file the primary command has written.
C33_FallbackTargetsFreshPath == TargetsOf("primary") \cap TargetsOf("fallback") = {}

\* the positions of the dots of a name, and the extension it ends with: what
\* follows the last dot, when that is not empty and is part of the file name
\* itself (no '/' after the dot)
DotsOf(name) == {i \in 1..Len(name) : name[i] = Dot}
LastDot(name) == CHOOSE i \in DotsOf(name) : \A k \in DotsOf(name) : k <= i
HasExtension(name) ==
    /\ DotsOf(name) # {}
    /\ LastDot(name) < Len(name)
    /\ \A k \in LastDot(name)..Len(name) : name[k] # Slash

\* C34: the download name is the original name without its last extension,
\* then '.' and the target extension: a name without an extension is kept
\* whole, and of a name with several dots only the part from the last dot on
\* is removed.
C34_DownloadName ==
    downloadName # <<>> =>
        /\ HasExtension(originalName) =>
             downloadName = SubSeq(originalName, 1, LastDot(originalName) - 1)
                              \o <<Dot, extension>>
        /\ ~HasExtension(originalName) =>
             downloadName = originalName \o <<Dot, extension>>
C34_Witness ==
    /\ originalName = <<"a", Dot, "b", Dot, "a">>
    /\ extension = "mp3"
    /\ downloadName = <<"a", Dot, "b", Dot, "mp3">>

\* C35: once processUpload has reported a failure through onError, no later
\* event of the request reports again or settles the upload another way: the
\* calls of onError stay as they are and so does the promise.
C35_UploadSettlesOnce ==
    [][uploadReports # <<>> =>
         /\ uploadReports' = uploadReports
         /\ uploadPromise' = uploadPromise]_vars

\* every callback that is due runs: the parser goes on through the body, a
\* saved upload is converted, an armed timer fires unless it is cancelled, a
\* started download ends
FairJobsSpec ==
    /\ JobsSpec
    /\ \A j \in Jobs :
         /\ WF_vars(JobFile(j) \/ JobFinish(j) \/ JobConvert(j))
         /\ WF_vars(JobTimeout(j))
         /\ WF_vars(JobDelivered(j))

\* the request has been answered: a download or an error response was begun
Answered(j) == jobs[j].response \in {"download", "error"}

\* the parser has seen the end of the request's body
BodyReceived(j) == jobs[j].state \notin {"new", "uploading", "limited"}

Quiesced ==
    /\ pc \in {"started", "rejected"}
    /\ primary = "running" => primaryEvents >= 1
    /\ \A i \in 1..Len(procs) : procs[i] = "closed"
    /\ timer # "armed"
    /\ \A i \in 1..Len(downloads) : downloads[i] \in {"done", "failed"}

\* C37: once the request has quiesced, neither the input file nor the output
\* file is on disk, whatever the terminal outcome.
C37_NoTempFilesAfterQuiescence ==
    Quiesced => (inputFile = "absent" /\ outputFile = "missing")

\* the step begins the request's error response
BeginsErrorResponse ==
    /\ responses = <<>>
    /\ responses' # <<>>
    /\ responses'[1].kind # "download"

\* the upload is empty: one file part of no bytes, saved as a file of size zero
EmptyUploadSaved == nfiles = 1 /\ bytes = 0 /\ savedFile.exists /\ savedFile.size = 0

\* C38: the status of the error response follows the kind of the first
\* failure: too many files 400, file over the size limit 413, empty upload
\* 400, write or parser error 500, conversion timeout 504, any other
\* conversion failure 500.
C38_StatusByFirstFailure ==
    [][BeginsErrorResponse =>
         /\ lastEvent'.name = "filesLimit" => responses'[1].status = TooManyFilesStatus
         /\ lastEvent'.name = "limit" => responses'[1].status = FileTooLargeStatus
         /\ (lastEvent'.name = "finish" /\ EmptyUploadSaved)
              => responses'[1].status = EmptyUploadStatus
         /\ lastEvent'.name \in {"wsError", "busboyError"}
              => responses'[1].status = ErrorStatus
         /\ lastEvent'.name = "timeout" => responses'[1].status = TimeoutStatus
         /\ lastEvent'.name \in {"verifyRejected", "primaryEnd", "close", "spawnError"}
              => responses'[1].status = ErrorStatus]_vars

\* the paths getEndpointsList has published for POST
PublishedPaths ==
    {availableEndpoints[i].path :
        i \in {k \in 1..Len(availableEndpoints) : "POST" \in availableEndpoints[k].methods}}

\* C39: for every key of endpoints.types, the path getEndpointsList publishes
\* for it is registered by setupEndpoints with that key's own profile, and so
\* is the short route '/<key>'.
C39_RegistrationRoundTrip ==
    registered =>
        \A prop \in types :
            /\ listPath(prop) \in PublishedPaths
            /\ Dispatch(routes, listPath(prop)) = profileOf(prop)
            /\ Dispatch(routes, <<prop>>) = profileOf(prop)
C39_Witness ==
    /\ registered
    /\ types = AllKeys
    /\ Dispatch(routes, Append(CompressPrefix, Segment("mp4"))) = profileOf(<<"compress", "mp4">>)
    /\ Dispatch(routes, Append(ConvertPrefix("video"), Segment("mp4"))) = profileOf(<<"mp4">>)

====
